---- MODULE Spec2Model ----
(***************************************************************************)
(* State-machine model of xe::gpu::vulkan::VulkanSharedMemory              *)
(* (src/xenia/gpu/vulkan/vulkan_shared_memory.cc).                         *)
(*                                                                         *)
(* The object is driven by one recording thread, so the operations never   *)
(* interleave.  UploadRanges is split at its calls of RequestPartial, the  *)
(* only place where the outcome is chosen by a collaborator (the staging   *)
(* pool): one step runs the code from one RequestPartial to the next one.  *)
(* `trace` is the list of the calls the current (or last) operation made   *)
(* on its collaborators, in program order.                                 *)
(***************************************************************************)
EXTENDS Integers, Sequences, FiniteSets, TLC

(***************************************************************************)
(* Program constants.                                                      *)
(***************************************************************************)
page_size_log2 == 12
PageSize == 2 ^ page_size_log2
\* SharedMemory::kBufferSize, 512 MB: the size of the device buffer.
kBufferSize == 536870912
\* VK_WHOLE_SIZE is ~0ULL; any value that is no byte count stands for it.
VK_WHOLE_SIZE == -1
VK_NULL_HANDLE == 0

kRead == "kRead"
kComputeWrite == "kComputeWrite"
kTransferDestination == "kTransferDestination"
kGuestDrawReadWrite == "kGuestDrawReadWrite"
Usage == {kRead, kComputeWrite, kTransferDestination, kGuestDrawReadWrite}

(***************************************************************************)
(* Bounds of the model.                                                    *)
(***************************************************************************)
\* The batches of SpecBatch hold at most MaxBatchPages pages, in any number
\* of ranges.
MaxBatchPages == 4
\* Staging buffers (VkBuffer identities) the pool hands out: 1..NumUploadBuffers.
NumUploadBuffers == 2
\* Submission numbers run 1..MaxSubmission.
MaxSubmission == 2

Min(a, b) == IF a < b THEN a ELSE b
\* x << page_size_log2(): page numbers stay below 2^17, so no uint32 wraps.
ToBytes(pages) == pages * PageSize
\* x >> page_size_log2()
ToPages(bytes) == bytes \div PageSize

(***************************************************************************)
(* Inputs.                                                                 *)
(***************************************************************************)
\* The sample batch of the design document: pages [0,4) and [10,12).
ExampleRanges == << <<0, 4>>, <<10, 2>> >>

\* The dirty-page tracker hands out ascending, non-overlapping ranges of at
\* least one page.
\* The lists of ranges of at most `budget` pages in all, the first range
\* starting at `page` or one page later, each range touching the one before
\* it or leaving a gap of one page.
RECURSIVE BatchesAt(_, _)
BatchesAt(page, budget) ==
    {<<>>} \cup
    UNION {UNION {{<< <<s, n>> >> \o rest : rest \in BatchesAt(s + n, budget - n)} :
                  n \in 1..budget} :
           s \in {page, page + 1}}

\* The batches one UploadRanges call gets in SpecBatch.
BatchInputs == BatchesAt(0, MaxBatchPages) \cup {ExampleRanges}

\* The batches UploadRanges gets in Spec.
UploadInputs ==
    { <<>>, << <<0, 1>> >>, << <<1, 2>> >>, << <<0, 1>>, <<2, 1>> >> }

\* Written ranges callers of Use pass: empty, inside the buffer, across its
\* end, at its end and beyond its end.
UseRanges ==
    { <<0, 0>>, <<0, PageSize>>, <<kBufferSize - PageSize, 2 * PageSize>>,
      <<kBufferSize, PageSize>>, <<kBufferSize + PageSize, PageSize>> }
\* The written ranges of the Use calls before the batch of SpecBatch.
BatchUseRanges == { <<0, 0>>, <<0, PageSize>> }

(***************************************************************************)
(* Calls on the collaborators, as entries of `trace`.                      *)
(***************************************************************************)
NoEvent ==
    [ev |-> "", u1 |-> "", u2 |-> "", id |-> 0, sub |-> 0, req |-> 0,
     off |-> 0, dst |-> 0, size |-> 0, rs |-> <<>>, flags |-> {},
     stage_mask_src |-> {}, srcAccessMask |-> {},
     stage_mask_dst |-> {}, dstAccessMask |-> {}]

\* The Vulkan device: the buffers and memory allocations that exist on it,
\* whether a handle that does not exist was ever destroyed or freed, and
\* device_features().tessellationShader.
VARIABLE device

\* The devices on which no object exists yet.
EmptyDevice ==
    {[buffers |-> {}, memory |-> {}, misused |-> FALSE, tessellationShader |-> t] :
        t \in BOOLEAN}

GetBarrierComputeWriteAsWrite(usage) ==
    IF usage = kComputeWrite
       THEN [stage_mask |-> {"COMPUTE_SHADER"}, access_mask |-> {"SHADER_WRITE"}]
    ELSE IF usage = kTransferDestination
       THEN [stage_mask |-> {"TRANSFER"}, access_mask |-> {"TRANSFER_WRITE"}]
    ELSE LET stage_mask ==
                 {"VERTEX_INPUT", "VERTEX_SHADER", "FRAGMENT_SHADER"}
                 \cup (IF device.tessellationShader
                          THEN {"TESSELLATION_EVALUATION_SHADER"} ELSE {})
             access_mask == {"INDEX_READ", "SHADER_READ"}
         IN  IF usage = kRead
                THEN [stage_mask |-> stage_mask \cup {"COMPUTE_SHADER", "TRANSFER"},
                      access_mask |-> access_mask \cup {"TRANSFER_READ"}]
                ELSE [stage_mask |-> stage_mask,
                      access_mask |-> access_mask \cup {"SHADER_WRITE"}]
\* The stage mask and the access mask of a usage.
GetBarrier(usage) ==
    IF usage = kComputeWrite
       THEN [stage_mask |-> {"COMPUTE_SHADER"}, access_mask |-> {"SHADER_READ"}]
    ELSE IF usage = kTransferDestination
       THEN [stage_mask |-> {"TRANSFER"}, access_mask |-> {"TRANSFER_WRITE"}]
    ELSE LET stage_mask ==
                 {"VERTEX_INPUT", "VERTEX_SHADER", "FRAGMENT_SHADER"}
                 \cup (IF device.tessellationShader
                          THEN {"TESSELLATION_EVALUATION_SHADER"} ELSE {})
             access_mask == {"INDEX_READ", "SHADER_READ"}
         IN  IF usage = kRead
                THEN [stage_mask |-> stage_mask \cup {"COMPUTE_SHADER", "TRANSFER"},
                      access_mask |-> access_mask \cup {"TRANSFER_READ"}]
                ELSE [stage_mask |-> stage_mask,
                      access_mask |-> access_mask \cup {"SHADER_WRITE"}]

\* Use(usage, written_range) entered; dst/size hold the clipped range.
EvUse(usage, range) ==
    [NoEvent EXCEPT !.ev = "Use", !.u1 = usage, !.dst = range[1], !.size = range[2]]
\* CmdVkPipelineBarrier with one buffer memory barrier.
EvBarrier(src, dst, range) ==
    [NoEvent EXCEPT !.ev = "CmdVkPipelineBarrier", !.u1 = src, !.u2 = dst,
                    !.stage_mask_src = GetBarrier(src).stage_mask,
                    !.srcAccessMask = GetBarrier(src).access_mask,
                    !.stage_mask_dst = GetBarrier(dst).stage_mask,
                    !.dstAccessMask = GetBarrier(dst).access_mask,
                    !.dst = range[1], !.size = range[2]]
EvWriteMemoryRead(addr, length) ==
    [NoEvent EXCEPT !.ev = "WriteMemoryRead", !.dst = addr, !.size = length]
\* RequestPartial(sub, req, ...) -> buffer id, offset off, size; id is
\* VK_NULL_HANDLE when the pool returned nullptr.
EvRequestPartial(sub, req, id, off, size) ==
    [NoEvent EXCEPT !.ev = "RequestPartial", !.sub = sub, !.req = req, !.id = id,
                    !.off = off, !.size = size]
EvMakeRangeValid(dst, size) ==
    [NoEvent EXCEPT !.ev = "MakeRangeValid", !.dst = dst, !.size = size]
\* memcpy(mapping of (id, off), TranslatePhysical(dst), size)
EvMemcpy(id, off, dst, size) ==
    [NoEvent EXCEPT !.ev = "memcpy", !.id = id, !.off = off, !.dst = dst,
                    !.size = size]
\* CmdVkCopyBuffer(id, buffer_, Len(rs), rs)
EvCopyBuffer(id, rs) ==
    [NoEvent EXCEPT !.ev = "CmdVkCopyBuffer", !.id = id, !.rs = rs]
EvSimple(name) == [NoEvent EXCEPT !.ev = name]

VkBufferCopy(srcOffset, dstOffset, size) ==
    [srcOffset |-> srcOffset, dstOffset |-> dstOffset, size |-> size]

VARIABLES
    \* VulkanSharedMemory members
    buffer_,                \* VK_NULL_HANDLE or the handle 1
    buffer_memory_,         \* sequence of VkDeviceMemory handles
    upload_buffer_pool_,    \* [alive, pending]: pending = submission numbers
                            \* whose staging allocations are not reclaimed yet
    last_usage_,
    last_written_range_,    \* <<offset, length>>
    upload_regions_,        \* sequence of VkBufferCopy
    \* the command processor's submission counters
    cpCurrent,              \* GetCurrentSubmission()
    cpCompleted,            \* GetCompletedSubmission()
    \* the object and the thread using it
    lifetime,               \* "alive", "destructed", "aborted" (assertion failed)
    pc,                     \* "idle", or "chunk": UploadRanges at RequestPartial
    call,                   \* the current or last operation and the state it found
    trace,                  \* what that operation called, in order
    ret,                    \* its return value
    \* locals of UploadRanges
    upload_page_ranges,
    range_index,            \* position of the range-for loop, 1-based
    upload_range_start,
    upload_range_length,
    upload_buffer_previous,
    successful,
    submission_current

vars ==
    <<device, buffer_, buffer_memory_, upload_buffer_pool_, last_usage_,
      last_written_range_, upload_regions_, cpCurrent, cpCompleted, lifetime, pc,
      call, trace, ret, upload_page_ranges, range_index, upload_range_start,
      upload_range_length, upload_buffer_previous, successful, submission_current>>

members ==
    <<buffer_, buffer_memory_, upload_buffer_pool_, last_usage_,
      last_written_range_, upload_regions_>>
counters == <<cpCurrent, cpCompleted>>
locals ==
    <<upload_page_ranges, range_index, upload_range_start, upload_range_length,
      upload_buffer_previous, successful, submission_current>>

NoPool == [alive |-> FALSE, pending |-> {}]

\* What an operation records about itself when it starts; a Shutdown also
\* records whether it follows a Shutdown or an Initialize that failed.
Call(op, usage, range, ranges) ==
    [op |-> op,
     after |-> IF op \notin {"Shutdown", "destructor"} THEN ""
               ELSE IF call.op = "Shutdown" THEN "Shutdown"
               ELSE IF call.op = "Initialize" /\ ~ret THEN "failed Initialize"
               ELSE "", usage |-> usage, written_range |-> range, ranges |-> ranges,
     last_usage |-> last_usage_, last_written_range |-> last_written_range_,
     pool |-> upload_buffer_pool_, buffer |-> buffer_,
     memory |-> buffer_memory_, regions |-> upload_regions_,
     current |-> cpCurrent, completed |-> cpCompleted]

Init ==
    /\ device \in EmptyDevice
    /\ buffer_ = VK_NULL_HANDLE
    /\ buffer_memory_ = <<>>
    /\ upload_buffer_pool_ = NoPool
    /\ last_usage_ = kTransferDestination
    /\ last_written_range_ = <<0, 0>>
    /\ upload_regions_ = <<>>
    /\ cpCurrent = 1
    /\ cpCompleted = 0
    /\ lifetime = "alive"
    /\ pc = "idle"
    /\ call = Call("constructor", "", <<0, 0>>, <<>>)
    /\ trace = <<>>
    /\ ret = TRUE
    /\ upload_page_ranges = <<>>
    /\ range_index = 0
    /\ upload_range_start = 0
    /\ upload_range_length = 0
    /\ upload_buffer_previous = VK_NULL_HANDLE
    /\ successful = TRUE
    /\ submission_current = 0

\* assert_true and its header are not among the sources at hand: a failed
\* assertion is fatal, as the design document has it, and ends the process.
AssertFailed == "aborted"

Idle == lifetime = "alive" /\ pc = "idle"
Initialized == buffer_ # VK_NULL_HANDLE /\ upload_buffer_pool_.alive

(***************************************************************************)
(* Shutdown and Initialize.                                                *)
(***************************************************************************)
sparse_flags ==
    {"VK_BUFFER_CREATE_SPARSE_BINDING_BIT", "VK_BUFFER_CREATE_SPARSE_RESIDENCY_BIT"}
\* buffer_create_info.flags at the first vkCreateBuffer: sparse binding is a
\* TODO of the code, no flag is set.
BufferCreateFlagsSparse == sparse_flags
buffer_create_flags == {}

\* What the driver answers: "create_failed" fails every vkCreateBuffer,
\* "create_failed_once" only the first one; the other names tell the first
\* later step that fails.
InitializeOutcomes ==
    {"create_failed", "create_failed_once", "no_memory_type", "allocate_failed",
     "bind_failed", "ok"}

\* What the device holds after a list of calls.
RECURSIVE DeviceAfter(_, _)
DeviceAfter(dev, calls) ==
    IF calls = <<>> THEN dev
    ELSE LET e == Head(calls)
             next ==
                 IF e.ev = "vkCreateBuffer" /\ e.id # VK_NULL_HANDLE
                    THEN [dev EXCEPT !.buffers = @ \cup {e.id}]
                 ELSE IF e.ev = "vkAllocateMemory" /\ e.id # VK_NULL_HANDLE
                    THEN [dev EXCEPT !.memory = @ \cup {e.id}]
                 ELSE IF e.ev = "vkDestroyBuffer"
                    THEN IF e.id \in dev.buffers
                            THEN [dev EXCEPT !.buffers = @ \ {e.id}]
                            ELSE [dev EXCEPT !.misused = TRUE]
                 ELSE IF e.ev = "vkFreeMemory"
                    THEN IF e.id \in dev.memory
                            THEN [dev EXCEPT !.memory = @ \ {e.id}]
                            ELSE [dev EXCEPT !.misused = TRUE]
                 ELSE dev
         IN  DeviceAfter(next, Tail(calls))

RECURSIVE FreeAll(_)
FreeAll(memory) ==
    IF memory = <<>> THEN <<>>
    ELSE <<[EvSimple("vkFreeMemory") EXCEPT !.id = Head(memory)]>>
             \o FreeAll(Tail(memory))

\* The calls Shutdown makes, given the handles it finds.
ShutdownTrace(buffer, memory, from_destructor) ==
    (IF buffer # VK_NULL_HANDLE
        THEN <<[EvSimple("vkDestroyBuffer") EXCEPT !.id = buffer]>> ELSE <<>>)
    \o FreeAll(memory)
    \o (IF from_destructor THEN <<>> ELSE <<EvSimple("ShutdownCommon")>>)

ShutdownKeepsMemoryList ==
    /\ upload_buffer_pool_' = NoPool
    /\ last_written_range_' = <<0, 0>>
    /\ last_usage_' = kTransferDestination
    /\ buffer_' = VK_NULL_HANDLE
    /\ UNCHANGED buffer_memory_
\* The members as Shutdown leaves them.
ShutdownMembers ==
    /\ upload_buffer_pool_' = NoPool
    /\ last_written_range_' = <<0, 0>>
    /\ last_usage_' = kTransferDestination
    /\ buffer_' = VK_NULL_HANDLE
    /\ buffer_memory_' = <<>>

Shutdown(from_destructor) ==
    /\ Idle
    /\ ShutdownMembers
    /\ trace' = ShutdownTrace(buffer_, buffer_memory_, from_destructor)
    /\ device' = DeviceAfter(device, trace')
    /\ call' = Call(IF from_destructor THEN "destructor" ELSE "Shutdown",
                    "", <<0, 0>>, <<>>)
    /\ lifetime' = IF from_destructor THEN "destructed" ELSE lifetime
    /\ ret' = TRUE
    /\ UNCHANGED <<upload_regions_, counters, pc, locals>>

\* The first vkCreateBuffer failed and a sparse flag was set: the flags are
\* cleared and vkCreateBuffer is called once more.
CreateRetried(outcome) ==
    /\ outcome \in {"create_failed", "create_failed_once"}
    /\ buffer_create_flags \cap sparse_flags # {}
\* buffer_create_info.flags after the creation attempts
FinalCreateFlags(outcome) ==
    IF CreateRetried(outcome) THEN buffer_create_flags \ sparse_flags
                              ELSE buffer_create_flags
\* buffer_create_result == VK_SUCCESS after the creation attempts
BufferCreated(outcome) ==
    \/ outcome \notin {"create_failed", "create_failed_once"}
    \/ CreateRetried(outcome) /\ outcome = "create_failed_once"
MemoryPushedAfterBind(outcome) ==
    /\ BufferCreated(outcome)
    /\ outcome \notin {"no_memory_type", "allocate_failed", "bind_failed"}
    /\ FinalCreateFlags(outcome) \cap sparse_flags = {}
\* One allocation backs the buffer unless it was created sparse; it is in
\* buffer_memory_ from before the bind.
MemoryAllocated(outcome) ==
    /\ BufferCreated(outcome)
    /\ outcome # "no_memory_type"
    /\ FinalCreateFlags(outcome) \cap sparse_flags = {}
    /\ outcome # "allocate_failed"
InitializeSucceeds(outcome) ==
    /\ BufferCreated(outcome)
    /\ outcome \notin {"no_memory_type", "allocate_failed", "bind_failed"} \/
          (outcome # "no_memory_type" /\ FinalCreateFlags(outcome) \cap sparse_flags # {})

\* The calls Initialize makes before it returns or enters Shutdown.
InitializeTrace(outcome) ==
    <<EvSimple("InitializeCommon"),
      [EvSimple("vkCreateBuffer") EXCEPT
          !.flags = buffer_create_flags,
          !.id = IF outcome \in {"create_failed", "create_failed_once"}
                    THEN VK_NULL_HANDLE ELSE 1]>>
    \o (IF CreateRetried(outcome)
           THEN <<[EvSimple("vkCreateBuffer") EXCEPT
                      !.flags = FinalCreateFlags(outcome),
                      !.id = IF outcome = "create_failed" THEN VK_NULL_HANDLE ELSE 1]>>
           ELSE <<>>)
    \o (IF BufferCreated(outcome)
           THEN <<EvSimple("vkGetBufferMemoryRequirements")>> ELSE <<>>)
    \o (IF /\ BufferCreated(outcome)
           /\ outcome # "no_memory_type"
           /\ FinalCreateFlags(outcome) \cap sparse_flags = {}
           THEN <<[EvSimple("vkAllocateMemory") EXCEPT
                      !.id = IF outcome = "allocate_failed" THEN VK_NULL_HANDLE ELSE 1]>>
           ELSE <<>>)
    \o (IF MemoryAllocated(outcome)
           THEN <<[EvSimple("vkBindBufferMemory") EXCEPT
                      !.id = 1, !.off = 0,
                      !.size = IF outcome = "bind_failed" THEN 0 ELSE 1]>>
           ELSE <<>>)

Initialize(outcome) ==
    /\ Idle
    /\ buffer_ = VK_NULL_HANDLE
    /\ ~upload_buffer_pool_.alive
    /\ call' = Call("Initialize", outcome, <<0, 0>>, <<>>)
    /\ LET created == IF BufferCreated(outcome) THEN 1 ELSE buffer_
           memory == IF MemoryAllocated(outcome)
                        THEN Append(buffer_memory_, 1) ELSE buffer_memory_
       IN  IF InitializeSucceeds(outcome)
              THEN /\ buffer_' = created
                   /\ buffer_memory_' = memory
                   /\ upload_buffer_pool_' = [alive |-> TRUE, pending |-> {}]
                   /\ trace' = InitializeTrace(outcome)
                   /\ UNCHANGED <<last_usage_, last_written_range_>>
              ELSE \* every failure path runs Shutdown() and returns false
                   /\ ShutdownMembers
                   /\ trace' = InitializeTrace(outcome)
                         \o <<EvSimple("Shutdown")>>
                         \o ShutdownTrace(created, memory, FALSE)
    /\ device' = DeviceAfter(device, trace')
    /\ ret' = InitializeSucceeds(outcome)
    /\ UNCHANGED <<upload_regions_, counters, lifetime, pc, locals>>

(***************************************************************************)
(* Submission lifecycle.                                                   *)
(***************************************************************************)
\* The command processor opens the next submission.
BeginSubmission ==
    /\ Idle
    /\ cpCurrent < MaxSubmission
    /\ cpCurrent' = cpCurrent + 1
    /\ UNCHANGED <<device, members, cpCompleted, lifetime, pc, call, trace, ret, locals>>

\* The device finishes the oldest submission in flight.
SubmissionCompleted ==
    /\ Idle
    /\ cpCompleted + 1 < cpCurrent
    /\ cpCompleted' = cpCompleted + 1
    /\ UNCHANGED <<device, members, cpCurrent, lifetime, pc, call, trace, ret, locals>>

\* VulkanUploadBufferPool::Reclaim: allocations of submissions up to
\* `completed` become reusable.
Reclaim(pool, completed) ==
    [pool EXCEPT !.pending = {s \in pool.pending : s > completed}]

\* The submission number CompletedSubmissionUpdated hands to Reclaim.
ReclaimUpToCurrent == cpCurrent
ReclaimUpTo == cpCompleted

CompletedSubmissionUpdated ==
    /\ Idle
    /\ upload_buffer_pool_.alive
    /\ upload_buffer_pool_' = Reclaim(upload_buffer_pool_, ReclaimUpTo)
    /\ trace' = <<[EvSimple("Reclaim") EXCEPT !.sub = ReclaimUpTo]>>
    /\ call' = Call("CompletedSubmissionUpdated", "", <<0, 0>>, <<>>)
    /\ ret' = TRUE
    /\ UNCHANGED <<device, buffer_, buffer_memory_, last_usage_, last_written_range_,
                   upload_regions_, counters, lifetime, pc, locals>>

EndSubmission ==
    /\ Idle
    /\ upload_buffer_pool_.alive
    /\ trace' = <<EvSimple("FlushWrites")>>
    /\ call' = Call("EndSubmission", "", <<0, 0>>, <<>>)
    /\ ret' = TRUE
    /\ UNCHANGED <<device, members, counters, lifetime, pc, locals>>

(***************************************************************************)
(* Use.                                                                    *)
(***************************************************************************)
ClipRange(written_range) ==
    LET first == Min(written_range[1], kBufferSize)
    IN  <<first, Min(written_range[2], kBufferSize - first)>>

\* assert_true(usage != Usage::kRead || !written_range.second): a failed
\* assertion is fatal, the call does not go on.
AssertDisabled(usage, written_range) == TRUE
UseAssertion(usage, written_range) ==
    usage # kRead \/ written_range[2] = 0

BarrierOnUsageChangeOnly(last_usage, last_written_range, usage) ==
    last_usage # usage
NeedsBarrier(last_usage, last_written_range, usage) ==
    last_usage # usage \/ last_written_range[2] # 0

BarrierRangeAlwaysWhole(last_usage, last_written_range, usage) ==
    <<0, VK_WHOLE_SIZE>>
\* <<offset, size>> of the buffer memory barrier
BarrierRange(last_usage, last_written_range, usage) ==
    IF last_usage = usage THEN last_written_range ELSE <<0, VK_WHOLE_SIZE>>

\* The calls of Use(usage, written_range), written_range as clipped, on a
\* tracker holding (last_usage, last_written_range).
UseTrace(last_usage, last_written_range, usage, written_range) ==
    <<EvUse(usage, written_range)>>
    \o (IF NeedsBarrier(last_usage, last_written_range, usage)
           THEN <<EvBarrier(last_usage, usage,
                            BarrierRange(last_usage, last_written_range, usage))>>
           ELSE <<>>)

\* last_usage_ as Use leaves it.
UseLastUsage(last_usage, last_written_range, usage) ==
    IF NeedsBarrier(last_usage, last_written_range, usage) /\ last_usage # usage
       THEN usage ELSE last_usage

Use(usage, written_range) ==
    /\ Idle
    /\ Initialized
    /\ call' = Call("Use", usage, written_range, <<>>)
    /\ LET clipped == ClipRange(written_range)
       IN  IF UseAssertion(usage, clipped)
              THEN /\ trace' = UseTrace(last_usage_, last_written_range_, usage,
                                        clipped)
                   /\ last_usage_' =
                          UseLastUsage(last_usage_, last_written_range_, usage)
                   /\ last_written_range_' = clipped
                   /\ lifetime' = lifetime
              ELSE /\ trace' = <<EvUse(usage, clipped), EvSimple("assert_true")>>
                   /\ lifetime' = AssertFailed
                   /\ UNCHANGED <<last_usage_, last_written_range_>>
    /\ ret' = TRUE
    /\ UNCHANGED <<device, buffer_, buffer_memory_, upload_buffer_pool_, upload_regions_,
                   counters, pc, locals>>

(***************************************************************************)
(* UploadRanges.                                                           *)
(***************************************************************************)
UploadSpanLengthInPages(ranges) ==
    <<ToBytes(ranges[1][1]),
      ranges[Len(ranges)][1] + ranges[Len(ranges)][2] - ranges[1][1]>>
UploadSpanToLastEnd(ranges) ==
    <<ToBytes(ranges[1][1]),
      ToBytes(ranges[Len(ranges)][1] + ranges[Len(ranges)][2])>>
\* The written range handed to Use: from the first range's start to the last
\* range's end, <<offset, length>> in bytes.
UploadSpan(ranges) ==
    <<ToBytes(ranges[1][1]),
      ToBytes(ranges[Len(ranges)][1] + ranges[Len(ranges)][2] - ranges[1][1])>>

UploadUseBeforeEmptyCheck(ranges, last_usage, last_written_range) ==
    LET span == IF ranges = <<>> THEN <<0, 0>> ELSE ClipRange(UploadSpan(ranges))
    IN  [trace |-> UseTrace(last_usage, last_written_range,
                            kTransferDestination, span),
         last_usage |-> UseLastUsage(last_usage, last_written_range,
                                     kTransferDestination),
         last_written_range |-> span]
\* The start of UploadRanges, up to and including its call of Use: what it
\* calls and how it leaves the usage tracker.
UploadUse(ranges, last_usage, last_written_range) ==
    IF ranges = <<>>
       THEN [trace |-> <<>>, last_usage |-> last_usage,
             last_written_range |-> last_written_range]
       ELSE LET span == ClipRange(UploadSpan(ranges))
            IN  [trace |-> UseTrace(last_usage, last_written_range,
                                    kTransferDestination, span),
                 last_usage |-> UseLastUsage(last_usage, last_written_range,
                                             kTransferDestination),
                 last_written_range |-> span]

\* The submission number UploadRanges tags its staging requests with.
SubmissionCompletedTag == cpCompleted
SubmissionTag == cpCurrent

\* The staging pool fills each of its buffers front to back: the offset of a
\* new allocation in buffer `id` is what this call was granted there before.
RECURSIVE PoolOffset(_, _)
PoolOffset(tr, id) ==
    IF tr = <<>> THEN 0
    ELSE (IF Head(tr).ev = "RequestPartial" /\ Head(tr).id = id
             THEN Head(tr).size ELSE 0) + PoolOffset(Tail(tr), id)

\* The pool goes on in the staging buffer it used last or takes the next one
\* of its ring.
PoolBuffers(previous) ==
    IF previous = VK_NULL_HANDLE THEN {1}
    ELSE {previous, (previous % NumUploadBuffers) + 1}

FlushEveryChunk(previous, buffer, regions) == regions # <<>>
\* The pending regions are submitted before a chunk of another buffer joins.
FlushBeforeAppend(previous, buffer, regions) ==
    previous # buffer /\ regions # <<>>

MemoryReadNoticeOfFirstPage(upload_range) ==
    <<EvWriteMemoryRead(ToBytes(upload_range[1]), ToBytes(1))>>
\* The trace writer is told of the read of a whole input range when the for
\* loop enters it.
MemoryReadNotice(upload_range) ==
    <<EvWriteMemoryRead(ToBytes(upload_range[1]), ToBytes(upload_range[2]))>>

FlushSourceCurrent(previous, buffer) == buffer
\* The source buffer of the copy command that submits the pending regions
\* when a chunk of another buffer arrives.
FlushSource(previous, buffer) == previous

StageChunkCopyOnly(id, off, dst, size) ==
    <<EvMemcpy(id, off, dst, size)>>
\* A granted chunk is marked valid in the shared memory and filled.
StageChunk(id, off, dst, size) ==
    <<EvMakeRangeValid(dst, size), EvMemcpy(id, off, dst, size)>>

FinalFlushOnSuccessOnly(previous, regions, ok) ==
    IF regions # <<>> /\ ok THEN <<EvCopyBuffer(previous, regions)>> ELSE <<>>
FinalFlushMissing(previous, regions, ok) == <<>>
\* The copy command issued after the loops, if regions are pending.
FinalFlush(previous, regions, ok) ==
    IF regions # <<>> THEN <<EvCopyBuffer(previous, regions)>> ELSE <<>>

NextStartByOnePage(start, pages) == start + 1
\* upload_range_start += upload_buffer_pages
NextStart(start, pages) == start + pages

NextLengthUnchanged(length, pages) == length
\* upload_range_length -= upload_buffer_pages
NextLength(length, pages) == length - pages

\* assert_true(upload_buffer_previous != VK_NULL_HANDLE) before a copy command
CopyAssertion(previous) == previous # VK_NULL_HANDLE

\* UploadRanges leaves its loops: the final flush and the return.
UploadReturn(tr, previous, regions, ok) ==
    /\ trace' = tr \o FinalFlush(previous, regions, ok)
    /\ upload_regions_' = <<>>
    /\ lifetime' = IF regions # <<>> /\ ~CopyAssertion(previous)
                      THEN AssertFailed ELSE lifetime
    /\ ret' = ok
    /\ pc' = "idle"
    /\ upload_page_ranges' = <<>>
    /\ range_index' = 0
    /\ upload_range_start' = 0
    /\ upload_range_length' = 0
    /\ upload_buffer_previous' = VK_NULL_HANDLE
    /\ successful' = TRUE
    /\ submission_current' = 0

\* UploadRanges from its entry to its first RequestPartial (or to its return,
\* for an empty batch).
UploadRanges(ranges) ==
    /\ Idle
    /\ ranges = <<>> \/ Initialized
    /\ call' = Call("UploadRanges", "", <<0, 0>>, ranges)
    /\ LET use == UploadUse(ranges, last_usage_, last_written_range_)
       IN  /\ last_usage_' = use.last_usage
           /\ last_written_range_' = use.last_written_range
           /\ IF ranges = <<>>
                 THEN /\ trace' = use.trace
                      /\ ret' = TRUE
                      /\ UNCHANGED <<upload_regions_, pc, locals>>
                 ELSE /\ submission_current' = SubmissionTag
                      /\ successful' = TRUE
                      /\ upload_regions_' = <<>>
                      /\ upload_buffer_previous' = VK_NULL_HANDLE
                      /\ upload_page_ranges' = ranges
                      /\ range_index' = 1
                      /\ upload_range_start' = ranges[1][1]
                      /\ upload_range_length' = ranges[1][2]
                      /\ trace' = use.trace \o MemoryReadNotice(ranges[1])
                      /\ ret' = TRUE
                      /\ pc' = "chunk"
    /\ UNCHANGED <<device, buffer_, buffer_memory_, upload_buffer_pool_, counters, lifetime>>

\* RequestPartial grants `pages` pages at the fill offset of buffer `id`; the
\* code runs on to the next RequestPartial, or to the return.
UploadChunk(id, pages) ==
    /\ lifetime = "alive"
    /\ pc = "chunk"
    /\ pages \in 1..upload_range_length
    /\ LET size == ToBytes(pages)
           off == PoolOffset(trace, id)
           dst == ToBytes(upload_range_start)
           flush == FlushBeforeAppend(upload_buffer_previous, id, upload_regions_)
           staged ==
               trace \o
               <<EvRequestPartial(submission_current,
                                  ToBytes(upload_range_length), id, off, size)>> \o
               StageChunk(id, off, dst, size) \o
               (IF flush
                   THEN <<EvCopyBuffer(FlushSource(upload_buffer_previous, id),
                                       upload_regions_)>>
                   ELSE <<>>)
           regions == Append(IF flush THEN <<>> ELSE upload_regions_,
                             VkBufferCopy(off, dst, size))
           start == NextStart(upload_range_start, pages)
           length == NextLength(upload_range_length, pages)
           next == range_index + 1
       IN  /\ upload_buffer_pool_' =
                  [upload_buffer_pool_ EXCEPT !.pending = @ \cup {submission_current}]
           /\ IF length # 0
                 THEN \* the while loop goes on
                      /\ trace' = staged
                      /\ upload_regions_' = regions
                      /\ upload_buffer_previous' = id
                      /\ upload_range_start' = start
                      /\ upload_range_length' = length
                      /\ lifetime' = IF flush /\ ~CopyAssertion(upload_buffer_previous)
                                        THEN AssertFailed ELSE lifetime
                      /\ UNCHANGED <<pc, ret, upload_page_ranges, range_index,
                                     successful, submission_current>>
                 ELSE IF next <= Len(upload_page_ranges)
                 THEN \* the for loop takes the next range
                      /\ trace' = staged \o MemoryReadNotice(upload_page_ranges[next])
                      /\ upload_regions_' = regions
                      /\ upload_buffer_previous' = id
                      /\ range_index' = next
                      /\ upload_range_start' = upload_page_ranges[next][1]
                      /\ upload_range_length' = upload_page_ranges[next][2]
                      /\ lifetime' = IF flush /\ ~CopyAssertion(upload_buffer_previous)
                                        THEN AssertFailed ELSE lifetime
                      /\ UNCHANGED <<pc, ret, upload_page_ranges, successful,
                                     submission_current>>
                 ELSE UploadReturn(staged, id, regions, successful)
    /\ UNCHANGED <<device, buffer_, buffer_memory_, last_usage_, last_written_range_,
                   counters, call>>

\* RequestPartial returns nullptr: both loops are left.
UploadChunkFailed ==
    /\ lifetime = "alive"
    /\ pc = "chunk"
    /\ UploadReturn(
           Append(trace, EvRequestPartial(submission_current,
                                          ToBytes(upload_range_length),
                                          VK_NULL_HANDLE, 0, 0)),
           upload_buffer_previous, upload_regions_, FALSE)
    /\ UNCHANGED <<device, buffer_, buffer_memory_, upload_buffer_pool_, last_usage_,
                   last_written_range_, counters, call>>

(***************************************************************************)
(* Specification.                                                          *)
(***************************************************************************)
Next ==
    \/ \E outcome \in InitializeOutcomes : Initialize(outcome)
    \/ \E from_destructor \in BOOLEAN : Shutdown(from_destructor)
    \/ BeginSubmission
    \/ SubmissionCompleted
    \/ CompletedSubmissionUpdated
    \/ EndSubmission
    \/ \E usage \in Usage, written_range \in UseRanges : Use(usage, written_range)
    \/ \E ranges \in UploadInputs : UploadRanges(ranges)
    \/ \E id \in PoolBuffers(upload_buffer_previous) :
          \E pages \in 1..upload_range_length : UploadChunk(id, pages)
    \/ UploadChunkFailed

Spec == Init /\ [][Next]_vars

(***************************************************************************)
(* SpecBatch: one UploadRanges call on a newly initialized object, for     *)
(* every batch of BatchInputs and every answer of the staging pool, after  *)
(* any Use calls.                                                          *)
(***************************************************************************)
InitBatch ==
    /\ device \in {[d EXCEPT !.buffers = {1}, !.memory = {1}] : d \in EmptyDevice}
    /\ buffer_ = 1
    /\ buffer_memory_ = <<1>>
    /\ upload_buffer_pool_ = [alive |-> TRUE, pending |-> {}]
    /\ last_usage_ = kTransferDestination
    /\ last_written_range_ = <<0, 0>>
    /\ upload_regions_ = <<>>
    /\ cpCurrent = 1
    /\ cpCompleted = 0
    /\ lifetime = "alive"
    /\ pc = "idle"
    /\ call = [Call("Initialize", "ok", <<0, 0>>, <<>>) EXCEPT
                  !.buffer = VK_NULL_HANDLE, !.memory = <<>>, !.pool = NoPool]
    /\ trace = InitializeTrace("ok")
    /\ ret = TRUE
    /\ upload_page_ranges = <<>>
    /\ range_index = 0
    /\ upload_range_start = 0
    /\ upload_range_length = 0
    /\ upload_buffer_previous = VK_NULL_HANDLE
    /\ successful = TRUE
    /\ submission_current = 0

NextBatch ==
    \/ \E usage \in Usage, written_range \in BatchUseRanges :
          call.op # "UploadRanges" /\ Use(usage, written_range)
    \/ \E ranges \in BatchInputs :
          call.op # "UploadRanges" /\ UploadRanges(ranges)
    \/ \E id \in PoolBuffers(upload_buffer_previous) :
          \E pages \in 1..upload_range_length : UploadChunk(id, pages)
    \/ UploadChunkFailed

SpecBatch == InitBatch /\ [][NextBatch]_vars

\* One turn of the while loop of UploadRanges, whatever the pool answers.
LoopIteration ==
    \/ \E id \in PoolBuffers(upload_buffer_previous) :
          \E pages \in 1..upload_range_length : UploadChunk(id, pages)
    \/ UploadChunkFailed

\* One UploadRanges call on a newly initialized object, run by a thread
\* that keeps running: a loop that has a next iteration takes it
\* (RequestPartial returns).
NextUpload ==
    \/ \E ranges \in BatchInputs :
          call.op # "UploadRanges" /\ UploadRanges(ranges)
    \/ LoopIteration

SpecUploadLive == InitBatch /\ [][NextUpload]_vars /\ WF_vars(LoopIteration)

(***************************************************************************)
(* Reading `trace`.                                                        *)
(***************************************************************************)
Barrier == "CmdVkPipelineBarrier"
Copy == "CmdVkCopyBuffer"
Request == "RequestPartial"

\* The calls of one kind, in order, and their positions.
Events(name) == SelectSeq(trace, LAMBDA e : e.ev = name)
Where(name) == {i \in 1..Len(trace) : trace[i].ev = name}

\* The operation `op` has run and returned.
Returned(op) == call.op = op /\ pc = "idle" /\ lifetime = "alive"

\* [offset, offset + length) cut to the buffer [0, kBufferSize)
ClippedToBuffer(range) ==
    IF range[1] >= kBufferSize THEN <<kBufferSize, 0>>
    ELSE IF range[1] + range[2] > kBufferSize
            THEN <<range[1], kBufferSize - range[1]>>
            ELSE range

\* First byte, and the byte after the last one, of a batch of page ranges.
FirstByte(ranges) == ranges[1][1] * PageSize
EndByte(ranges) == (ranges[Len(ranges)][1] + ranges[Len(ranges)][2]) * PageSize

(***************************************************************************)
(* Use: C1, C2, C9.                                                        *)
(***************************************************************************)
\* C1: a Use call (one that passes its contract check, so that it runs)
\* emits exactly one barrier if the usage differs from the lastUsage it finds
\* or the lastWrittenRange it finds has length > 0, and no barrier otherwise.
C1_BarrierIffChangedOrWritten ==
    (call.op = "Use" /\ lifetime # "aborted") =>
        Len(Events(Barrier)) =
            IF call.usage # call.last_usage \/ call.last_written_range[2] > 0
               THEN 1 ELSE 0

\* Both sides of C1 happen: an unchanged usage committing a recorded write
\* has emitted its barrier.
C1_Witness ==
    /\ Returned("Use")
    /\ call.usage = call.last_usage
    /\ call.last_written_range[2] > 0
    /\ Len(Events(Barrier)) = 1

\* C2: wherever Use has run (called directly or by UploadRanges), a barrier
\* it emitted has exactly the lastWrittenRange found by the call when the
\* usage is unchanged, and offset 0 with the whole size when the usage
\* changes, lastUsage then being the requested usage; the clipped written
\* range of the call is the new lastWrittenRange in every case.
C2_BarrierRangeAndRecord ==
    (call.op \in {"Use", "UploadRanges"} /\ trace # <<>> /\ lifetime # "aborted") =>
        LET use == trace[1]
        IN  /\ use.ev = "Use"
            /\ \A i \in Where(Barrier) :
                  IF use.u1 = call.last_usage
                     THEN <<trace[i].dst, trace[i].size>> = call.last_written_range
                     ELSE /\ <<trace[i].dst, trace[i].size>> = <<0, VK_WHOLE_SIZE>>
                          /\ last_usage_ = use.u1
            /\ last_usage_ = use.u1
            /\ last_written_range_ = <<use.dst, use.size>>
            /\ call.op = "Use" =>
                  /\ use.u1 = call.usage
                  /\ last_written_range_ = ClippedToBuffer(call.written_range)

\* An unchanged usage commits a recorded write, and the range of the call
\* was cut at the end of the buffer.
C2_Witness ==
    /\ Returned("Use")
    /\ call.usage = call.last_usage
    /\ call.last_written_range[2] > 0
    /\ \E i \in Where(Barrier) :
          <<trace[i].dst, trace[i].size>> = call.last_written_range
    /\ last_written_range_ # call.written_range
    /\ last_written_range_[2] > 0

\* C9 as stated: every Use(Read, range) with range length > 0, whatever its
\* offset, hits the fatal check and records nothing.
C9_AsStated ==
    (call.op = "Use" /\ call.usage = kRead /\ call.written_range[2] > 0) =>
        /\ lifetime = "aborted"
        /\ last_usage_ = call.last_usage
        /\ last_written_range_ = call.last_written_range

\* C9, amended: Use(Read, range) hits the fatal check, records nothing and
\* emits no barrier exactly when the range, cut to the buffer, has length
\* > 0: a range that starts at or beyond the end of the buffer is cut to
\* length 0 and the call completes.
C9_ReadWithClippedWriteIsFatal ==
    (call.op = "Use" /\ call.usage = kRead) =>
        /\ lifetime = "aborted" <=>
              (call.written_range[2] > 0 /\ call.written_range[1] < kBufferSize)
        /\ lifetime = "aborted" =>
              /\ last_usage_ = call.last_usage
              /\ last_written_range_ = call.last_written_range
              /\ Where(Barrier) = {}

\* The fatal check fired on a range that reaches beyond the buffer but has
\* bytes inside it.
C9_Witness ==
    /\ call.op = "Use"
    /\ call.usage = kRead
    /\ call.written_range[1] + call.written_range[2] > kBufferSize
    /\ lifetime = "aborted"

(***************************************************************************)
(* UploadRanges: C3 to C8.                                                 *)
(***************************************************************************)
\* The staged chunks, in order: the memcpy into each staging allocation.
Staged == Events("memcpy")
\* The regions of all copy commands, in command order.
RECURSIVE Flatten(_)
Flatten(cmds) == IF cmds = <<>> THEN <<>> ELSE Head(cmds).rs \o Flatten(Tail(cmds))
CopiedRegions == Flatten(Events(Copy))

\* The lengths of the maximal runs of equal neighbours of a sequence.
RECURSIVE RunLengths(_)
RunLengths(ids) ==
    IF ids = <<>> THEN <<>>
    ELSE IF Len(ids) = 1 THEN <<1>>
    ELSE LET rest == RunLengths(Tail(ids))
         IN  IF ids[1] = ids[2] THEN <<Head(rest) + 1>> \o Tail(rest)
                                ELSE <<1>> \o rest

\* The pages of a byte region, and of a batch of page ranges.
RegionPages(r) ==
    (r.dstOffset \div PageSize)..((r.dstOffset + r.size - 1) \div PageSize)
BatchPages(ranges) ==
    UNION {ranges[i][1]..(ranges[i][1] + ranges[i][2] - 1) : i \in 1..Len(ranges)}

\* C3: a non-empty UploadRanges call calls Use exactly once, first of all,
\* with TransferDestination and the bytes from the first range's start to the
\* last range's end; so at most one barrier is emitted, and it comes before
\* every staging request and every copy command of the call.
C3_OneUseUpFront ==
    (call.op = "UploadRanges" /\ call.ranges # <<>>) =>
        /\ Where("Use") = {1}
        /\ trace[1].u1 = kTransferDestination
        /\ trace[1].dst = FirstByte(call.ranges)
        /\ trace[1].dst + trace[1].size = EndByte(call.ranges)
        /\ Cardinality(Where(Barrier)) <= 1
        /\ \A b \in Where(Barrier) :
              \A c \in Where(Request) \cup Where(Copy) \cup Where("memcpy") : b < c

\* A call on two ranges, the first not at page 0, emitted its one barrier
\* and, after it, two copy commands.
C3_Witness ==
    /\ Returned("UploadRanges")
    /\ Len(call.ranges) >= 2
    /\ call.ranges[1][1] > 0
    /\ Cardinality(Where(Barrier)) = 1
    /\ Cardinality(Where(Copy)) >= 2

\* C4: at the return of UploadRanges there is one copy command for each
\* maximal run of consecutive staged chunks of one staging buffer, runs going
\* on across the boundaries of the input ranges, and the command of a run
\* carries one region for each chunk of the run.
C4_OneCopyPerRun ==
    Returned("UploadRanges") =>
        LET runs == RunLengths([i \in 1..Len(Staged) |-> Staged[i].id])
            cmds == Events(Copy)
        IN  /\ Len(cmds) = Len(runs)
            /\ \A i \in 1..Len(cmds) : Len(cmds[i].rs) = runs[i]

\* Two copy commands for three chunks, one command holding two chunks that
\* lie in different input ranges (a gap between their destinations).
C4_Witness ==
    /\ Returned("UploadRanges")
    /\ Len(Staged) = 3
    /\ Len(Events(Copy)) = 2
    /\ \E i \in Where(Copy) :
          /\ Len(trace[i].rs) = 2
          /\ trace[i].rs[1].dstOffset + trace[i].rs[1].size < trace[i].rs[2].dstOffset

\* C5: when a staging request fails, UploadRanges returns false, nothing but
\* the final copy command follows the failed request (no retry, no later
\* chunk, no later range), and by the return every chunk staged before the
\* failure is a region of a copy command from its staging buffer.
C5_FailureKeepsStagedChunks ==
    (Returned("UploadRanges") /\ \E k \in Where(Request) : trace[k].id = VK_NULL_HANDLE) =>
        LET k == CHOOSE k \in Where(Request) : trace[k].id = VK_NULL_HANDLE
        IN  /\ ret = FALSE
            /\ \A i \in (k + 1)..Len(trace) : trace[i].ev = Copy
            /\ \A i \in Where("memcpy") :
                  \E c \in Where(Copy) :
                     /\ trace[c].id = trace[i].id
                     /\ \E j \in 1..Len(trace[c].rs) :
                           trace[c].rs[j] =
                               VkBufferCopy(trace[i].off, trace[i].dst, trace[i].size)

\* The third staging request failed after two chunks were staged.
C5_Witness ==
    /\ Returned("UploadRanges")
    /\ ret = FALSE
    /\ Len(Staged) = 2
    /\ Len(Events(Request)) = 3
    /\ CopiedRegions # <<>>

\* C6: when every staging request succeeded, the destinations of the copied
\* regions are whole pages, each region ends where or before the next one
\* starts, and together they cover exactly the pages of the input ranges; for
\* pages [0,4) and [10,12) of 4096 bytes that is [0,16384) and [40960,49152).
C6_DestinationsCoverInput ==
    (Returned("UploadRanges") /\ ret = TRUE) =>
        LET regions == CopiedRegions
        IN  /\ \A i \in 1..Len(regions) :
                  /\ regions[i].size > 0
                  /\ regions[i].size % PageSize = 0
                  /\ regions[i].dstOffset % PageSize = 0
            /\ \A i \in 1..(Len(regions) - 1) :
                  regions[i].dstOffset + regions[i].size <= regions[i + 1].dstOffset
            /\ UNION {RegionPages(regions[i]) : i \in 1..Len(regions)} =
                  BatchPages(call.ranges)
            /\ call.ranges = ExampleRanges =>
                  \A i \in 1..Len(regions) :
                     \/ regions[i].dstOffset + regions[i].size <= 16384
                     \/ /\ regions[i].dstOffset >= 40960
                        /\ regions[i].dstOffset + regions[i].size <= 49152

\* The sample batch was uploaded in at least three chunks.
C6_Witness ==
    /\ Returned("UploadRanges")
    /\ ret = TRUE
    /\ call.ranges = ExampleRanges
    /\ Len(CopiedRegions) >= 3

\* C7 as stated: the barrier of a non-empty UploadRanges call spans the bytes
\* from the first range's start to the last range's end.
C7_AsStated ==
    (call.op = "UploadRanges" /\ call.ranges # <<>>) =>
        \A b \in Where(Barrier) :
           /\ trace[b].dst = FirstByte(call.ranges)
           /\ trace[b].dst + trace[b].size = EndByte(call.ranges)

\* C7, amended: the bytes from the first range's start to the last range's
\* end are the written range the call hands to Use and leaves in
\* lastWrittenRange ([0, 49152) for the sample batch); the barrier of the
\* call, if there is one, spans the lastWrittenRange found by the call when
\* the usage was TransferDestination already, and the whole buffer otherwise.
C7_SpanIsRecordedNotBarrier ==
    (call.op = "UploadRanges" /\ call.ranges # <<>>) =>
        /\ last_written_range_ =
              <<FirstByte(call.ranges), EndByte(call.ranges) - FirstByte(call.ranges)>>
        /\ <<trace[1].dst, trace[1].size>> = last_written_range_
        /\ call.ranges = ExampleRanges => last_written_range_ = <<0, 49152>>
        /\ \A b \in Where(Barrier) :
              <<trace[b].dst, trace[b].size>> =
                  IF call.last_usage = kTransferDestination
                     THEN call.last_written_range ELSE <<0, VK_WHOLE_SIZE>>

\* The sample batch, uploaded after a smaller write: the barrier spans that
\* write, not the batch.
C7_Witness ==
    /\ Returned("UploadRanges")
    /\ call.ranges = ExampleRanges
    /\ call.last_usage = kTransferDestination
    /\ \E b \in Where(Barrier) : <<trace[b].dst, trace[b].size>> = <<0, PageSize>>
    /\ last_written_range_ = <<0, 49152>>

\* C8: UploadRanges on an empty list returns true at once and has called
\* nothing and changed nothing: usage tracker, staging pool, buffer, memory
\* and pending regions are as the call found them.
C8_EmptyUploadHasNoEffect ==
    (call.op = "UploadRanges" /\ call.ranges = <<>>) =>
        /\ Returned("UploadRanges")
        /\ ret = TRUE
        /\ trace = <<>>
        /\ last_usage_ = call.last_usage
        /\ last_written_range_ = call.last_written_range
        /\ upload_buffer_pool_ = call.pool
        /\ buffer_ = call.buffer
        /\ buffer_memory_ = call.memory
        /\ upload_regions_ = call.regions

\* An empty list was uploaded while a write was recorded and staging
\* allocations were pending.
C8_Witness ==
    /\ Returned("UploadRanges")
    /\ call.ranges = <<>>
    /\ last_written_range_[2] > 0
    /\ upload_buffer_pool_.pending # {}

(***************************************************************************)
(* Staging allocations and submissions: C10.                               *)
(***************************************************************************)
\* Every staging request of an UploadRanges call carries the submission
\* number that was current when the call started, and what it was granted
\* is held by the pool under that number as long as no other operation ran.
StagingTaggedWithCurrentSubmission ==
    call.op = "UploadRanges" =>
        \A i \in Where(Request) :
           /\ trace[i].sub = call.current
           /\ trace[i].id # VK_NULL_HANDLE =>
                 trace[i].sub \in upload_buffer_pool_.pending

\* A step that takes an allocation out of the pool's pending ones is either
\* CompletedSubmissionUpdated, handing the pool a number that the command
\* processor reports completed and that is not below the allocation's tag,
\* or a Shutdown (which releases the pool).
ReclaimedOnlyWhenCompleted ==
    \A tag \in upload_buffer_pool_.pending :
       tag \notin upload_buffer_pool_'.pending =>
          \/ /\ call'.op = "CompletedSubmissionUpdated"
             /\ trace'[1].ev = "Reclaim"
             /\ tag <= trace'[1].sub
             /\ trace'[1].sub <= cpCompleted
          \/ /\ call'.op \in {"Shutdown", "destructor"}
             /\ ~upload_buffer_pool_'.alive

\* C10: staging allocations are tagged with the submission current at the
\* start of the UploadRanges call, and become reusable only when
\* CompletedSubmissionUpdated forwards a completed submission number at or
\* above the tag (or when Shutdown releases the pool): never in
\* UploadRanges, EndSubmission or any other step.
C10_ReclaimAfterCompletion ==
    /\ []StagingTaggedWithCurrentSubmission
    /\ [][ReclaimedOnlyWhenCompleted]_vars

\* CompletedSubmissionUpdated took back the allocations of submission 1 and
\* left those of submission 2, which is still running.
C10_Witness ==
    /\ Returned("CompletedSubmissionUpdated")
    /\ call.pool.pending = {1, 2}
    /\ upload_buffer_pool_.pending = {2}
    /\ cpCompleted = 1

(***************************************************************************)
(* Lifecycle: C11, C12, C17.                                               *)
(***************************************************************************)
ShutdownRan == call.op \in {"Shutdown", "destructor"}
Frees(calls) ==
    {i \in 1..Len(calls) : calls[i].ev \in {"vkDestroyBuffer", "vkFreeMemory"}}

\* No handle is destroyed or freed that the device does not hold, so none
\* is destroyed or freed twice.
NeverFreedTwice == ~device.misused

\* Shutdown leaves the handle null, the allocation list empty and no pool.
ShutdownClearsMembers ==
    ShutdownRan =>
       /\ buffer_ = VK_NULL_HANDLE
       /\ buffer_memory_ = <<>>
       /\ upload_buffer_pool_ = NoPool

\* A Shutdown step taken when the last lifecycle call was a Shutdown or an
\* Initialize that returned false makes no vkDestroyBuffer and no
\* vkFreeMemory call.
SecondShutdownFreesNothing ==
    /\ \E from_destructor \in BOOLEAN : Shutdown(from_destructor)
    /\ \/ call.op = "Shutdown"
       \/ call.op = "Initialize" /\ ~ret
    => Frees(trace') = {}

\* C11: over any sequence of Initialize (succeeding or failing at any
\* step), Shutdown and destructor calls, the buffer and each allocation are
\* destroyed or freed at most once; after every Shutdown the buffer handle
\* is null, the allocation list is empty and the pool is released; a
\* Shutdown that follows a Shutdown or a failed Initialize frees nothing.
C11_ShutdownIdempotent ==
    /\ [](NeverFreedTwice /\ ShutdownClearsMembers)
    /\ [][SecondShutdownFreesNothing]_vars

\* The destructor ran after an Initialize that failed to bind the memory
\* it had allocated: the failed Initialize had destroyed the buffer and
\* freed the allocation, the destructor found nothing to free.
C11_Witness ==
    /\ call.op = "destructor"
    /\ call.after = "failed Initialize"
    /\ call.buffer = VK_NULL_HANDLE
    /\ call.memory = <<>>
    /\ Frees(trace) = {}
    /\ device \in EmptyDevice
    /\ lifetime = "destructed"

InitializeReturned == call.op = "Initialize"

\* C12: Initialize returns false exactly when buffer creation, the choice
\* of a memory type, the allocation or the bind fails; Shutdown has then
\* run before the return: the buffer handle is null, no allocation remains
\* in the list or on the device (one made before a failed bind was freed),
\* there is no pool and the usage state is (TransferDestination, (0, 0)).
\* When it returns true the buffer handle is not null, exactly one
\* allocation is held and was bound at offset 0, and the pool exists.
C12_InitializeAllOrNothing ==
    InitializeReturned =>
       /\ ~ret <=> call.usage \in InitializeOutcomes \ {"ok"}
       /\ ~ret =>
             /\ \E i \in 1..Len(trace) : trace[i].ev = "Shutdown"
             /\ buffer_ = VK_NULL_HANDLE
             /\ buffer_memory_ = <<>>
             /\ device \in EmptyDevice
             /\ upload_buffer_pool_ = NoPool
             /\ last_usage_ = kTransferDestination
             /\ last_written_range_ = <<0, 0>>
       /\ ret =>
             /\ buffer_ # VK_NULL_HANDLE
             /\ device.buffers = {buffer_}
             /\ Len(buffer_memory_) = 1
             /\ device.memory = {buffer_memory_[1]}
             /\ \E i \in 1..Len(trace) :
                   /\ trace[i].ev = "vkBindBufferMemory"
                   /\ trace[i].id = buffer_memory_[1]
                   /\ trace[i].off = 0
             /\ upload_buffer_pool_.alive

\* Initialize failed to bind: the allocation it had made was freed and the
\* buffer destroyed before it returned false.
C12_Witness ==
    /\ InitializeReturned
    /\ ~ret
    /\ call.usage = "bind_failed"
    /\ \E i \in Frees(trace) : trace[i].ev = "vkFreeMemory"
    /\ \E i \in Frees(trace) : trace[i].ev = "vkDestroyBuffer"
    /\ device \in EmptyDevice

(***************************************************************************)
(* Barrier masks: C13.                                                     *)
(***************************************************************************)
\* The stage / access table of the usages.
GraphicsStages ==
    {"VERTEX_INPUT", "VERTEX_SHADER", "FRAGMENT_SHADER"}
    \cup (IF device.tessellationShader THEN {"TESSELLATION_EVALUATION_SHADER"} ELSE {})
StageTable ==
    [u \in Usage |->
        CASE u = kComputeWrite -> {"COMPUTE_SHADER"}
          [] u = kTransferDestination -> {"TRANSFER"}
          [] u = kRead -> GraphicsStages \cup {"COMPUTE_SHADER", "TRANSFER"}
          [] u = kGuestDrawReadWrite -> GraphicsStages]
AccessTable ==
    [u \in Usage |->
        CASE u = kComputeWrite -> {"SHADER_READ"}
          [] u = kTransferDestination -> {"TRANSFER_WRITE"}
          [] u = kRead -> {"INDEX_READ", "SHADER_READ", "TRANSFER_READ"}
          [] u = kGuestDrawReadWrite -> {"INDEX_READ", "SHADER_READ", "SHADER_WRITE"}]

\* The usage a call asks Use for: UploadRanges asks for kTransferDestination.
RequestedUsage ==
    IF call.op = "UploadRanges" THEN kTransferDestination ELSE call.usage

\* C13: every barrier emitted by Use has the source stage and access masks
\* of the table entry of the last usage held before the call and the
\* destination masks of the entry of the requested usage (so both are the
\* entry of the usage when the usage is unchanged).
C13_BarrierMasksFromTable ==
    call.op \in {"Use", "UploadRanges"} =>
        \A i \in Where(Barrier) :
           /\ trace[i].stage_mask_src = StageTable[call.last_usage]
           /\ trace[i].srcAccessMask = AccessTable[call.last_usage]
           /\ trace[i].stage_mask_dst = StageTable[RequestedUsage]
           /\ trace[i].dstAccessMask = AccessTable[RequestedUsage]

\* Use(kRead, ...) after a compute write, on a device with tessellation:
\* the barrier goes from the ComputeWrite entry to the Read entry.
C13_Witness ==
    /\ Returned("Use")
    /\ call.last_usage = kComputeWrite
    /\ call.usage = kRead
    /\ device.tessellationShader
    /\ \E i \in Where(Barrier) :
          /\ trace[i].srcAccessMask = {"SHADER_READ"}
          /\ "TESSELLATION_EVALUATION_SHADER" \in trace[i].stage_mask_dst

(***************************************************************************)
(* Usage state: C14.                                                       *)
(***************************************************************************)
\* C14: in every reachable state, last_usage_ = kRead implies that the
\* recorded written range has length 0.
C14_ReadHasNoWrittenRange ==
    last_usage_ = kRead => last_written_range_[2] = 0

\* Use(kRead, ...) returned after a write had been recorded under another
\* usage: the usage is now kRead and the recorded range is empty.
C14_Witness ==
    /\ Returned("Use")
    /\ call.usage = kRead
    /\ call.last_usage # kRead
    /\ call.last_written_range[2] > 0
    /\ last_usage_ = kRead
    /\ last_written_range_[2] = 0

(***************************************************************************)
(* Order of the calls of one UploadRanges call: C15, C16.                  *)
(***************************************************************************)
\* The region UploadRanges appends for the chunk filled by memcpy call e.
RegionOf(e) == VkBufferCopy(e.off, e.dst, e.size)
\* Region r is in the list of copy command c.
InCopy(r, c) == \E k \in 1..Len(trace[c].rs) : trace[c].rs[k] = r

\* C15: every region of a copy command is the region of a staged chunk,
\* and for every staged chunk, the destination bytes are marked valid and
\* the source bytes are copied into the staging allocation before the copy
\* command that contains the chunk's region is issued.
C15_ValidAndFilledBeforeCopy ==
    call.op = "UploadRanges" =>
       /\ \A c \in Where(Copy) :
             \A k \in 1..Len(trace[c].rs) :
                \E m \in Where("memcpy") : RegionOf(trace[m]) = trace[c].rs[k]
       /\ \A m \in Where("memcpy") :
             \A c \in Where(Copy) :
                InCopy(RegionOf(trace[m]), c) =>
                   /\ m < c
                   /\ \E v \in 1..(c - 1) :
                         trace[v] = EvMakeRangeValid(trace[m].dst, trace[m].size)

\* A call that staged three chunks and issued two copy commands, the first
\* one in the middle of the loop.
C15_Witness ==
    /\ Returned("UploadRanges")
    /\ Len(Staged) = 3
    /\ Len(Events("MakeRangeValid")) = 3
    /\ Len(Events(Copy)) = 2
    /\ \E c \in Where(Copy) : c < Len(trace)

\* The WriteMemoryRead calls of the call, in order.
Notices == Events("WriteMemoryRead")
\* The number of WriteMemoryRead calls made before position q of the trace:
\* the index of the input range the loop is in at q.
RangeAt(q) == Cardinality({n \in Where("WriteMemoryRead") : n < q})

\* The statement as the spec makes it: WriteMemoryRead is called for each
\* input range of a non-empty UploadRanges call, whether or not a staging
\* request of the call fails.
C16_AsStated ==
    (Returned("UploadRanges") /\ call.ranges # <<>>) =>
        \A i \in 1..Len(call.ranges) :
           \E n \in Where("WriteMemoryRead") :
              /\ trace[n].dst = ToBytes(call.ranges[i][1])
              /\ trace[n].size = ToBytes(call.ranges[i][2])

\* C16: in a non-empty UploadRanges call, WriteMemoryRead is called once,
\* with the full start address and byte length, for each input range the
\* loop enters, in input order, and before every staging request for that
\* range. The loop enters every range when no staging request fails; when
\* one fails, the ranges after the one it failed in are never notified.
C16_NotifiedUpToFailure ==
    (call.op = "UploadRanges" /\ call.ranges # <<>>) =>
       /\ Len(Notices) \in 1..Len(call.ranges)
       /\ \A i \in 1..Len(Notices) :
             /\ Notices[i].dst = ToBytes(call.ranges[i][1])
             /\ Notices[i].size = ToBytes(call.ranges[i][2])
       /\ \A q \in Where(Request) :
             /\ RangeAt(q) >= 1
             /\ trace[q].req <= ToBytes(call.ranges[RangeAt(q)][2])
             /\ trace[q].id # VK_NULL_HANDLE =>
                   (trace[q + 1].dst \div PageSize)
                      \in BatchPages(<<call.ranges[RangeAt(q)]>>)
             /\ trace[q].id = VK_NULL_HANDLE =>
                   \A n \in Where("WriteMemoryRead") : n < q
       /\ Returned("UploadRanges") /\ ret => Len(Notices) = Len(call.ranges)

\* A staging request for the first of two ranges failed after one chunk of
\* that range was staged: the second range was never notified.
C16_Witness ==
    /\ Returned("UploadRanges")
    /\ ~ret
    /\ Len(call.ranges) = 2
    /\ Len(Notices) = 1
    /\ Len(Staged) = 1
    /\ Len(Events(Copy)) = 1

(***************************************************************************)
(* Buffer creation: C17.                                                   *)
(***************************************************************************)
CreateCalls == Events("vkCreateBuffer")

\* The statement as the spec makes it: the first vkCreateBuffer carries a
\* sparse flag, a failure of it is followed by exactly one more attempt
\* without the flag, and Initialize fails on creation only after two
\* attempts failed.
C17_AsStated ==
    InitializeReturned =>
       /\ CreateCalls[1].flags \cap sparse_flags # {}
       /\ CreateCalls[1].id = VK_NULL_HANDLE =>
             /\ Len(CreateCalls) = 2
             /\ CreateCalls[2].flags \cap sparse_flags = {}

\* C17: Initialize creates the buffer with no sparse flag set (the retry
\* without the flags is taken only after a failed attempt that had one, and
\* no attempt has one): vkCreateBuffer is called exactly once, and when it
\* fails Initialize runs Shutdown and returns false without a retry.
C17_SingleAttemptWithoutSparse ==
    InitializeReturned =>
       /\ Len(CreateCalls) = 1
       /\ CreateCalls[1].flags = {}
       /\ CreateCalls[1].id = VK_NULL_HANDLE =>
             /\ ~ret
             /\ trace[Len(trace)].ev = "ShutdownCommon"
             /\ Where("vkAllocateMemory") = {}
             /\ buffer_ = VK_NULL_HANDLE

\* The first vkCreateBuffer failed where a second one would have succeeded:
\* Initialize returned false after that single attempt.
C17_Witness ==
    /\ InitializeReturned
    /\ call.usage = "create_failed_once"
    /\ ~ret
    /\ Len(CreateCalls) = 1
    /\ CreateCalls[1].id = VK_NULL_HANDLE

(***************************************************************************)
(* Termination of UploadRanges: C18.                                       *)
(***************************************************************************)
\* The pages of the batch not yet staged: what is left of the current range
\* and the ranges after it.
RECURSIVE PagesFrom(_, _)
PagesFrom(ranges, i) ==
    IF i > Len(ranges) THEN 0 ELSE ranges[i][2] + PagesFrom(ranges, i + 1)
RemainingPages ==
    upload_range_length + PagesFrom(upload_page_ranges, range_index + 1)

\* A step taken inside the loops either leaves them (the call returns) or
\* goes on with fewer remaining pages, and with fewer pages of the current
\* range as long as it stays in that range.
IterationExitsOrDecreases ==
    pc = "chunk" =>
       \/ pc' = "idle"
       \/ /\ pc' = "chunk"
          /\ RemainingPages' < RemainingPages
          /\ RemainingPages' > 0
          /\ range_index' = range_index =>
                upload_range_length' < upload_range_length

\* C18: every UploadRanges call on a finite batch returns, the pool granting
\* between one page and the requested size on each successful request:
\* each loop iteration either leaves the loops or strictly decreases the
\* remaining page count of the current range.
C18_UploadRangesTerminates ==
    /\ [][IterationExitsOrDecreases]_vars
    /\ (pc = "chunk") ~> (pc = "idle" /\ call.op = "UploadRanges")

\* A call that needed four loop iterations (four granted chunks) returned.
C18_Witness ==
    /\ Returned("UploadRanges")
    /\ ret
    /\ Len(Events(Request)) = 4
    /\ Len(Staged) = 4

(***************************************************************************)
(* Copy commands and staged chunks: C19, C20.                              *)
(***************************************************************************)
\* C19: every copy command of an UploadRanges call has a non-empty region
\* list and a source buffer that is not null, and each of its regions is
\* the region of a chunk that was written into that very staging buffer,
\* whatever buffers the pool hands out.
C19_CopiedFromWhereStaged ==
    call.op = "UploadRanges" =>
        \A c \in Where(Copy) :
           /\ trace[c].rs # <<>>
           /\ trace[c].id # VK_NULL_HANDLE
           /\ \A k \in 1..Len(trace[c].rs) :
                 /\ \E m \in Where("memcpy") :
                       /\ m < c
                       /\ trace[m].id = trace[c].id
                       /\ RegionOf(trace[m]) = trace[c].rs[k]
                 /\ \A m \in Where("memcpy") :
                       trace[m].dst = trace[c].rs[k].dstOffset =>
                          /\ trace[m].id = trace[c].id
                          /\ trace[m].off = trace[c].rs[k].srcOffset

\* The pool switched from buffer 1 to buffer 2 and back: three copy
\* commands, the first and the last from buffer 1, the second from buffer 2.
C19_Witness ==
    /\ Returned("UploadRanges")
    /\ Len(Events(Copy)) = 3
    /\ Events(Copy)[1].id = 1
    /\ Events(Copy)[2].id = 2
    /\ Events(Copy)[3].id = 1
    /\ Len(Events(Copy)[1].rs) = 2

\* The pages marked valid by the call, and the pages that the regions of
\* its copy commands cover (every chunk is a whole number of pages).
ValidPages ==
    UNION {(e.dst \div PageSize)..((e.dst + e.size - 1) \div PageSize) :
              e \in {trace[v] : v \in Where("MakeRangeValid")}}
CopiedPages ==
    UNION {RegionPages(CopiedRegions[k]) : k \in 1..Len(CopiedRegions)}

\* C20: when an UploadRanges call returns, with success or not, the bytes
\* it marked valid are exactly the bytes covered by the regions of the copy
\* commands it issued, and no region is left pending.
C20_ValidEqualsCopied ==
    Returned("UploadRanges") =>
       /\ ValidPages = CopiedPages
       /\ Len(Events("MakeRangeValid")) = Len(CopiedRegions)
       /\ \A v \in Where("MakeRangeValid") :
             \E k \in 1..Len(CopiedRegions) :
                /\ CopiedRegions[k].dstOffset = trace[v].dst
                /\ CopiedRegions[k].size = trace[v].size
       /\ upload_regions_ = <<>>

\* A call failed after it had staged chunks in two staging buffers: both
\* copy commands were issued, the last one after the failed request.
C20_Witness ==
    /\ Returned("UploadRanges")
    /\ ~ret
    /\ Len(Events("MakeRangeValid")) = 3
    /\ Len(Events(Copy)) = 2
    /\ Cardinality(ValidPages) = 3
    /\ trace[Len(trace)].ev = Copy
    /\ trace[Len(trace) - 1].ev = Request

====
